---- MODULE Spec2Model ----
(***************************************************************************)
(* Ethereum-to-Godwoken transaction transcoder of godwoken-web3            *)
(* (packages/api-server/src/convert-tx.ts) and the Polyjuice args decoder. *)
(*                                                                         *)
(* Hex strings are modelled as sequences of bytes (0..255): "0x" is <<>>,  *)
(* "0x1b" is <<27>>, "0x001b" is <<0, 27>>.  A HexNumber that the code     *)
(* prints from a number ("0x0", "0x" + n.toString(16)) is the minimal      *)
(* big-endian byte string of its value, zero being <<0>>.  An optional     *)
(* value (T | undefined) is <<>> when undefined and <<x>> when present.    *)
(***************************************************************************)
EXTENDS Integers, Sequences, FiniteSets, TLC

VARIABLES
    ethRawTx,             \* ethRawTx2GwTx `data`: the RLP list, as its items
    pc,                   \* position of the async function between awaits
    rawTx,                \* the decoded PolyjuiceTransaction (optional)
    fromEthAddress,       \* recovered sender address (optional)
    fromId,               \* local `fromId` (optional account id)
    cacheKeyAndValue,     \* local `cacheKeyAndValue` (optional pair)
    isEthNativeTransfer_, \* local `isEthNativeTransfer_` (optional boolean)
    rpcLog,               \* the rollup RPC calls so far, each with its answer
    seen,                 \* balance and requiredBalance checkBalance returned
    ret,                  \* what the caller of ethRawTx2GwTx receives
    apiTx,                \* pending view of the transaction (optional)
    decodeIn,             \* argument of decodePolyjuiceArgs (optional)
    decoded               \* outcome of decodePolyjuiceArgs (optional)

vars == <<ethRawTx, pc, rawTx, fromEthAddress, fromId, cacheKeyAndValue,
          isEthNativeTransfer_, rpcLog, seen, ret, apiTx,
          decodeIn, decoded>>

----------------------------------------------------------------------------
(* Bounds of the model *)

\* length of the long call data used to exceed the size limit
LongDataLen == 130
\* the largest balance the rollup reports
BigBalance == 5000000

----------------------------------------------------------------------------
(* Configuration and imported constants.  Their values are set outside     *)
(* convert-tx.ts; MAX_TRANSACTION_SIZE is scaled down so that a             *)
(* transaction of LongDataLen data bytes exceeds it.                        *)

MAX_TRANSACTION_SIZE == 128
AUTO_CREATE_ACCOUNT_FROM_ID == 0
AUTO_CREATE_ACCOUNT_PREFIX_KEY == "auto_create_account"
PolyjuiceCreatorId == 4
Web3ChainId == 71402
MinGasLimit == 0
MaxGasLimit == 1000000
MinGasPrice == 0
MaxGasPrice == 100

----------------------------------------------------------------------------
(* Byte strings *)

Rep(n, b) == [i \in 1..n |-> b]

Reverse(bs) == [i \in 1..Len(bs) |-> bs[Len(bs) + 1 - i]]

RECURSIVE Strip(_)
\* BigInt(hex): the value of a byte string, as its minimal big-endian bytes
Strip(bs) == IF bs = <<>> THEN <<>>
             ELSE IF bs[1] = 0 THEN Strip(Tail(bs)) ELSE bs

RECURSIVE ToInt(_)
\* the integer a (short) byte string denotes
ToInt(bs) == IF bs = <<>> THEN 0
             ELSE 256 * ToInt(SubSeq(bs, 1, Len(bs) - 1)) + bs[Len(bs)]

\* a value small enough for the model's integer arithmetic
Small(bs) == Len(Strip(bs)) <= 3

\* String.prototype.padStart(2 * n, "0") on the hex digits
PadStart(bs, n) == IF Len(bs) >= n THEN bs ELSE Rep(n - Len(bs), 0) \o bs

\* "0x" + n.toString(16): zero prints as "0x0"
HexNum(bs) == IF Strip(bs) = <<>> THEN <<0>> ELSE Strip(bs)

\* x === "0x" ? "0x0" : x
OrZero(bs) == IF bs = <<>> THEN <<0>> ELSE bs

toRlpNumber(num) == Strip(num)

----------------------------------------------------------------------------
(* RLP *)

\* the number of bytes the big-endian form of a length takes
LenOfLen(n) ==
    IF n < 256 THEN 1
    ELSE IF n < 65536 THEN 2
    ELSE IF n < 16777216 THEN 3
    ELSE 4

\* encoded length of one byte string
RlpItemLen(bs) ==
    IF Len(bs) = 1 /\ bs[1] < 128 THEN 1
    ELSE IF Len(bs) <= 55 THEN 1 + Len(bs)
    ELSE 1 + LenOfLen(Len(bs)) + Len(bs)

RECURSIVE RlpPayloadLen(_)
RlpPayloadLen(items) ==
    IF items = <<>> THEN 0
    ELSE RlpItemLen(Head(items)) + RlpPayloadLen(Tail(items))

\* encoded length of a list of byte strings
RlpListLen(items) ==
    LET p == RlpPayloadLen(items)
    IN  IF p <= 55 THEN 1 + p ELSE 1 + LenOfLen(p) + p

\* rlpDecodeEthTx: exactly nine items, or an error
rlpDecodeOk(raw) == Len(raw) = 9

rlpDecodeEthTx(raw) ==
    [nonce |-> raw[1], gasPrice |-> raw[2], gasLimit |-> raw[3], to |-> raw[4],
     value |-> raw[5], data |-> raw[6], v |-> raw[7], r |-> raw[8], s |-> raw[9]]

ethTx2PolyTx(ethTx) ==
    [ethTx EXCEPT !.r = PadStart(ethTx.r, 32), !.s = PadStart(ethTx.s, 32)]

ethRawTx2PolyTx(raw) == ethTx2PolyTx(rlpDecodeEthTx(raw))

\* the canonical RLP list; rlp.encode is one-to-one on it
encodePolyjuiceTransaction(tx) ==
    <<toRlpNumber(tx.nonce), toRlpNumber(tx.gasPrice), toRlpNumber(tx.gasLimit),
      tx.to, toRlpNumber(tx.value), tx.data,
      toRlpNumber(tx.v), toRlpNumber(tx.r), toRlpNumber(tx.s)>>

calcEthTxHash(encodedSignedTx) == <<"keccak256", encodedSignedTx>>

autoCreateAccountCacheKey(ethTxHash) ==
    <<AUTO_CREATE_ACCOUNT_PREFIX_KEY, ethTxHash>>

----------------------------------------------------------------------------
(* Signature *)

\* +tx.v % 2 === 0: the hex string read as a double.  "0x" is NaN; a value
\* of 2^53 or more is rounded to a multiple of two; a value of
\* 2^1024 - 2^970 (0xfffffffffffffc followed by 121 zero bytes) or more is
\* Infinity, whose remainder is NaN.
NumberIsEven(v) ==
    LET s == Strip(v)
    IN  IF v = <<>> THEN FALSE
        ELSE IF s = <<>> THEN TRUE
        ELSE IF Len(s) <= 6 \/ (Len(s) = 7 /\ s[1] < 32) THEN s[Len(s)] % 2 = 0
        ELSE IF Len(s) < 128 THEN TRUE
        ELSE IF Len(s) = 128
        THEN ~((\A i \in 1..6 : s[i] = 255) /\ s[7] >= 252)
        ELSE FALSE

getSignature(tx) == tx.r \o tx.s \o (IF NumberIsEven(tx.v) THEN <<1>> ELSE <<0>>)

\* v = 27 / 28 as a bigint: the non-EIP-155 signing tuple
IsNonEip155(tx) == Strip(tx.v) \in {<<27>>, <<28>>}

RECURSIVE BigSub(_, _)
\* bigint subtraction of k (below 256) from a value that is at least k
BigSub(bs, k) ==
    IF k = 0 THEN bs
    ELSE LET n == Len(bs)
         IN  IF bs[n] >= k THEN [bs EXCEPT ![n] = bs[n] - k]
             ELSE BigSub(SubSeq(bs, 1, n - 1), 1) \o <<bs[n] + 256 - k>>

RECURSIVE BigHalf(_, _)
\* bigint division by two, the carry coming from the byte before
BigHalf(bs, carry) ==
    IF bs = <<>> THEN <<>>
    ELSE <<(256 * carry + bs[1]) \div 2>> \o BigHalf(Tail(bs), bs[1] % 2)

\* (v - 35n) / 2n and (v - 36n) / 2n are negative for v below 35
NegativeChainId(tx) ==
    LET s == Strip(tx.v) IN s = <<>> \/ (Len(s) = 1 /\ s[1] < 35)

\* lines 191-196: the chain id a v of 35 or more stands for
messageChainId(tx) ==
    LET s == Strip(tx.v)
    IN  IF s[Len(s)] % 2 = 0
        THEN Strip(BigHalf(BigSub(s, 36), 0))
        ELSE Strip(BigHalf(BigSub(s, 35), 0))

\* BigInt(tx.v) throws a SyntaxError on "0x"; rlp.encode throws on a
\* negative chain id
calcMessageError(tx) ==
    IF tx.v = <<>> THEN "SyntaxError"
    ELSE IF ~IsNonEip155(tx) /\ NegativeChainId(tx)
    THEN "Invalid integer as argument, must be unsigned!"
    ELSE "none"

calcMessageOk(tx) == calcMessageError(tx) = "none"

\* the signing tuple; chain id, r = 0 and s = 0 follow for an EIP-155 v
calcMessage(tx) ==
    <<"keccak256",
      <<toRlpNumber(tx.nonce), toRlpNumber(tx.gasPrice), toRlpNumber(tx.gasLimit),
        tx.to, toRlpNumber(tx.value), tx.data>>
      \o (IF IsNonEip155(tx) THEN <<>> ELSE <<messageChainId(tx), <<>>, <<>>>>)>>

----------------------------------------------------------------------------
(* Validators (./methods/validator) *)

verifyGasLimit(gasLimit) ==
    /\ Small(gasLimit)
    /\ ToInt(Strip(gasLimit)) >= MinGasLimit
    /\ ToInt(Strip(gasLimit)) <= MaxGasLimit

verifyGasPrice(gasPrice) ==
    /\ Small(gasPrice)
    /\ ToInt(Strip(gasPrice)) >= MinGasPrice
    /\ ToInt(Strip(gasPrice)) <= MaxGasPrice

RECURSIVE NonZeroBytes(_)
NonZeroBytes(bs) ==
    IF bs = <<>> THEN 0
    ELSE (IF Head(bs) = 0 THEN 0 ELSE 1) + NonZeroBytes(Tail(bs))

calcIntrinsicGas(to, data) ==
    21000 + 68 * NonZeroBytes(data) + 4 * (Len(data) - NonZeroBytes(data))
          + (IF to = <<>> THEN 32000 ELSE 0)

verifyIntrinsicGas(to, data, gasLimit) ==
    ToInt(Strip(gasLimit)) >= calcIntrinsicGas(to, data)

\* value + gasLimit * gasPrice
requiredBalance(tx) ==
    ToInt(Strip(tx.value)) + ToInt(Strip(tx.gasLimit)) * ToInt(Strip(tx.gasPrice))

----------------------------------------------------------------------------
(* Polyjuice args *)

\* FF FF FF "POLY"
args_0_7 == <<255, 255, 255, 80, 79, 76, 89>>

\* writeUInt32LE throws a RangeError above 2^32 - 1
UInt32Fits(num) == num \div 65536 < 65536
UInt32ToLeBytes(num) ==
    <<num % 256, (num \div 256) % 256, (num \div 65536) % 256,
      (num \div 16777216) % 256>>

\* writeBigUInt64LE throws a RangeError above 2^64 - 1
UInt64Fits(num) == Len(Strip(num)) <= 8
UInt64ToLeBytes(num) == Reverse(PadStart(Strip(num), 8))

\* "u128 too large" above U128_MAX
UInt128Fits(u128) == Len(Strip(u128)) <= 16
UInt128ToLeBytes(u128) == Reverse(PadStart(Strip(u128), 16))

\* lines 332-353: the first exception the header fields raise, or "none"
argsHeaderError(tx) ==
    IF tx.gasLimit = <<>> THEN "SyntaxError"
    ELSE IF ~UInt64Fits(tx.gasLimit) THEN "RangeError"
    ELSE IF ~UInt128Fits(tx.gasPrice) \/ ~UInt128Fits(tx.value) THEN "u128 too large"
    ELSE IF ~UInt32Fits(Len(tx.data)) THEN "RangeError"
    ELSE "none"

\* to === DEPLOY_TO_ADDRESS ? "0x03" : "0x00"
args_7(tx) == IF tx.to = <<>> THEN <<3>> ELSE <<0>>

\* assembleArgs, were the recipient never appended
assembleArgsNoTail(tx, native) ==
    args_0_7 \o args_7(tx) \o UInt64ToLeBytes(tx.gasLimit)
        \o UInt128ToLeBytes(tx.gasPrice) \o UInt128ToLeBytes(tx.value)
        \o UInt32ToLeBytes(Len(tx.data)) \o tx.data

\* lines 378-401
assembleArgs(tx, native) ==
    args_0_7 \o args_7(tx) \o UInt64ToLeBytes(tx.gasLimit)
        \o UInt128ToLeBytes(tx.gasPrice) \o UInt128ToLeBytes(tx.value)
        \o UInt32ToLeBytes(Len(tx.data)) \o tx.data
        \o (IF native THEN tx.to ELSE <<>>)

\* polyjuiceArgs.slice(0, 14): "0x" and the first twelve hex digits
hexSlice14(hex) == SubSeq(hex, 1, IF Len(hex) < 6 THEN Len(hex) ELSE 6)

isPolyjuiceTransactionArgs(polyjuiceArgs) == hexSlice14(polyjuiceArgs) # args_0_7

\* Uint32.fromLittleEndian(...).getValue()
Uint32FromLe(bs) == ToInt(Strip(Reverse(bs)))

decodeError(e) ==
    [ok |-> FALSE, err |-> e, isCreate |-> FALSE, gasLimit |-> <<>>, gasPrice |-> <<>>,
     value |-> <<>>, inputSize |-> <<>>, input |-> <<>>]

decodePolyjuiceArgs(args) ==
    IF ~isPolyjuiceTransactionArgs(args)
    THEN decodeError("Invalid polyjuice tx args, header not matched!")
    ELSE IF Len(args) < 52
    THEN decodeError("Tx's length smaller than 52 bytes!")
    ELSE LET inputSize == Uint32FromLe(SubSeq(args, 49, 52))
         IN  IF Len(args) # 52 + inputSize
             THEN decodeError("Tx's input size not matched!")
             ELSE [ok |-> TRUE, err |-> "",
                   isCreate |-> (args[8] = 3),
                   gasLimit |-> HexNum(Reverse(SubSeq(args, 9, 16))),
                   gasPrice |-> HexNum(Reverse(SubSeq(args, 17, 32))),
                   value |-> HexNum(Reverse(SubSeq(args, 33, 48))),
                   inputSize |-> HexNum(Reverse(SubSeq(args, 49, 52))),
                   input |-> SubSeq(args, 53, 52 + inputSize)]

----------------------------------------------------------------------------
(* Inputs *)

Addr20 == Rep(20, 170)
SenderAddr == Rep(20, 187)
\* the account ids the rollup may have registered for the sender and for `to`
SenderAccountIds == {5}
ToAccountIds == {7}

Nonces == {<<>>, <<1>>}
GasPrices == {<<>>, <<1>>, <<200>>}
GasLimits == {<<>>, <<100>>, <<82, 8>>, <<234, 96>>, <<1, 0, 0, 0>>}
Tos == {<<>>, Addr20, Rep(19, 170)}
Values == {<<>>, <<5>>}
Datas == {<<>>, <<0, 1>>, Rep(LongDataLen, 1)}
Vs == {<<>>, <<1>>, <<27>>, <<28>>, <<0, 27>>, <<37>>, <<38>>,
       <<32, 0, 0, 0, 0, 0, 1>>}
Rs == {<<1>>, Rep(33, 9)}
Ss == {Rep(32, 7)}

\* the nine-item lists, and one list that is an item short
RawTxs ==
    {<<n, gp, gl, to, val, d, v, r, s>> :
        n \in Nonces, gp \in GasPrices, gl \in GasLimits, to \in Tos,
        val \in Values, d \in Datas, v \in Vs, r \in Rs, s \in Ss}
    \cup {<<<<1>>, <<1>>, <<82, 8>>, Addr20, <<>>, <<>>, <<27>>, <<1>>>>}

Balances == {0, 21000, BigBalance}

----------------------------------------------------------------------------
(* The rollup RPC and the secp256k1 library: every answer they can give *)

RpcError == <<"error">>

AccountIdResponses(ids) ==
    {RpcError} \cup {<<"ok", i>> : i \in {<<>>} \cup {<<x>> : x \in ids}}

BalanceResponses == {RpcError} \cup {<<"ok", b>> : b \in Balances}

ScriptHashResponses == {RpcError} \cup {<<"ok", eoa>> : eoa \in BOOLEAN}

\* ecdsaRecover wants a 64-byte signature and a recovery id; it may still
\* fail on the curve.  <<>> is the exception, else the derived address.
recoverPublicKey(signature, message) ==
    IF Len(signature) # 65 THEN {<<>>} ELSE {<<>>, <<SenderAddr>>}

----------------------------------------------------------------------------
(* polyTx2GwTx, between its awaits *)

Pending == [status |-> "pending", err |-> "", tx |-> <<>>, cache |-> <<>>]

\* Thrown, were the entry built so far handed out with the error
ThrownWithCache(e, localCache) ==
    [status |-> "error", err |-> e, tx |-> <<>>, cache |-> localCache]

\* a thrown error: the caller receives the error alone; the local
\* cacheKeyAndValue (localCache) is dropped with the frame
Thrown(e, localCache) == [status |-> "error", err |-> e, tx |-> <<>>, cache |-> <<>>]

Returned(l2tx, cache) == [status |-> "ok", err |-> "", tx |-> <<l2tx>>, cache |-> cache]

fail(e, localCache) == pc' = "done" /\ ret' = Thrown(e, localCache)

\* preCheckError, were the gas price left unchecked
preCheckErrorNoGasPrice(tx) ==
    IF RlpListLen(encodePolyjuiceTransaction(tx)) > MAX_TRANSACTION_SIZE
    THEN "oversized data"
    ELSE IF ~verifyGasLimit(OrZero(tx.gasLimit)) THEN "gas limit"
    ELSE "none"

\* lines 246-263: the first check that fails, or "none"
preCheckError(tx) ==
    IF RlpListLen(encodePolyjuiceTransaction(tx)) > MAX_TRANSACTION_SIZE
    THEN "oversized data"
    ELSE IF ~verifyGasLimit(OrZero(tx.gasLimit)) THEN "gas limit"
    ELSE IF ~verifyGasPrice(OrZero(tx.gasPrice)) THEN "gas price"
    ELSE "none"

\* autoCreateAccount, were the sentinel not substituted for the sender id
autoCreateAccountNoSentinel(tx, raw, from) ==
    [cacheKeyAndValue |->
        <<<<autoCreateAccountCacheKey(calcEthTxHash(encodePolyjuiceTransaction(tx))),
            [tx |-> raw, fromAddress |-> from]>>>>,
     fromId |-> <<>>]

\* autoCreateAccount, were the re-encoded transaction cached in place of
\* the raw one
autoCreateAccountCachesReencoded(tx, raw, from) ==
    [cacheKeyAndValue |->
        <<<<autoCreateAccountCacheKey(calcEthTxHash(encodePolyjuiceTransaction(tx))),
            [tx |-> encodePolyjuiceTransaction(tx), fromAddress |-> from]>>>>,
     fromId |-> <<AUTO_CREATE_ACCOUNT_FROM_ID>>]

\* lines 295-302: the cache entry and the substituted sender id
autoCreateAccount(tx, raw, from) ==
    [cacheKeyAndValue |->
        <<<<autoCreateAccountCacheKey(calcEthTxHash(encodePolyjuiceTransaction(tx))),
            [tx |-> raw, fromAddress |-> from]>>>>,
     fromId |-> <<AUTO_CREATE_ACCOUNT_FROM_ID>>]

\* line 502: only a 20-byte `to` is looked up
needsToLookup(to) == Len(to) = 20

\* nativeWithoutScriptHash, were isEthEOA asked whatever the account id
nativeAlwaysAsksScriptHash(toId) == FALSE

\* line 504: toId == null short-circuits isEthEOA
nativeWithoutScriptHash(toId) == toId = <<>>

\* toIdSource, were a native transfer sent to the resolved account
toIdSourceNativeLookup(tx, native) ==
    IF tx.to = <<>> THEN "creator" ELSE "lookup"

\* lines 357-363: where to_id comes from
toIdSource(tx, native) ==
    IF tx.to = <<>> THEN "creator"
    ELSE IF native THEN "creator"
    ELSE "lookup"

\* lines 403-407
chainId(tx) == IF tx.v \in {<<27>>, <<28>>} THEN 0 ELSE Web3ChainId

\* lines 408-419; from_id and to_id keep their optional form
godwokenL2Tx(tx, from, toId, native) ==
    [raw |-> [chain_id |-> chainId(tx), from_id |-> from, to_id |-> toId,
              nonce |-> OrZero(tx.nonce), args |-> assembleArgs(tx, native)],
     signature |-> getSignature(tx)]

\* lines 365-421
finish(tx, toId, native) ==
    IF toId = <<>> THEN fail("to id not found", cacheKeyAndValue)
    ELSE /\ pc' = "done"
         /\ ret' = Returned(godwokenL2Tx(tx, fromId, toId, native), cacheKeyAndValue)

\* lines 355-363, once isEthNativeTransfer has answered
classified(tx, native) ==
    /\ isEthNativeTransfer_' = <<native>>
    /\ IF toIdSource(tx, native) = "creator"
       THEN finish(tx, <<PolyjuiceCreatorId>>, native)
       ELSE pc' = "toLookup2" /\ UNCHANGED ret

\* lines 305-316, then the await of verifyEnoughBalance
toVerifyEnoughBalance(tx, localCache) ==
    IF ~verifyIntrinsicGas(tx.to, tx.data, OrZero(tx.gasLimit))
    THEN fail("intrinsic gas", localCache)
    ELSE pc' = "verifyEnoughBalance" /\ UNCHANGED ret

----------------------------------------------------------------------------
(* Actions *)

\* the answers the rollup has given to one call
Answers(call, about) ==
    {rpcLog[i][3] : i \in {j \in DOMAIN rpcLog :
        /\ rpcLog[j][1] = call /\ rpcLog[j][2] = about /\ rpcLog[j][3] # RpcError}}

locals == <<fromId, cacheKeyAndValue, isEthNativeTransfer_, seen>>
after == <<apiTx, decodeIn, decoded>>

\* ethRawTx2GwTx up to the first await (lines 91, 244-271)
PreChecks ==
    /\ pc = "start"
    /\ UNCHANGED <<ethRawTx, locals, rpcLog, after>>
    /\ IF ~rlpDecodeOk(ethRawTx)
       THEN /\ fail("decode eth raw transaction data error", cacheKeyAndValue)
            /\ UNCHANGED <<rawTx, fromEthAddress>>
       ELSE LET tx == ethRawTx2PolyTx(ethRawTx)
            IN  /\ rawTx' = <<tx>>
                /\ IF preCheckError(tx) # "none"
                   THEN /\ fail(preCheckError(tx), cacheKeyAndValue)
                        /\ UNCHANGED fromEthAddress
                   ELSE IF ~calcMessageOk(tx)
                   THEN /\ fail(calcMessageError(tx), cacheKeyAndValue)
                        /\ UNCHANGED fromEthAddress
                   ELSE \E from \in recoverPublicKey(getSignature(tx), calcMessage(tx)) :
                          IF from = <<>>
                          THEN /\ fail("signature", cacheKeyAndValue)
                               /\ UNCHANGED fromEthAddress
                          ELSE /\ fromEthAddress' = from
                               /\ pc' = "senderLookup"
                               /\ UNCHANGED ret

\* the answer to getAccountIdByEthAddress(fromEthAddress) (lines 271-279)
SenderLookup ==
    /\ pc = "senderLookup"
    /\ UNCHANGED <<ethRawTx, rawTx, fromEthAddress, cacheKeyAndValue,
                   isEthNativeTransfer_, seen, after>>
    /\ \E rsp \in AccountIdResponses(SenderAccountIds) :
         /\ rpcLog' = Append(rpcLog, <<"getAccountId", "from", rsp>>)
         /\ IF rsp = RpcError
            THEN fail("UpstreamError", cacheKeyAndValue) /\ UNCHANGED fromId
            ELSE /\ fromId' = rsp[2]
                 /\ IF rsp[2] = <<>>
                    THEN pc' = "checkBalance" /\ UNCHANGED ret
                    ELSE toVerifyEnoughBalance(rawTx[1], cacheKeyAndValue)

\* the answer to checkBalance (lines 280-316)
CheckBalance ==
    /\ pc = "checkBalance"
    /\ UNCHANGED <<ethRawTx, rawTx, fromEthAddress, isEthNativeTransfer_, after>>
    /\ \E rsp \in BalanceResponses :
         /\ rpcLog' = Append(rpcLog, <<"getBalance", "from", rsp>>)
         /\ IF rsp = RpcError
            THEN fail("UpstreamError", cacheKeyAndValue)
                 /\ UNCHANGED <<fromId, cacheKeyAndValue, seen>>
            ELSE LET tx == rawTx[1]
                     aca == autoCreateAccount(tx, ethRawTx, fromEthAddress[1])
                 IN  /\ seen' = <<[balance |-> rsp[2],
                                   requiredBalance |-> requiredBalance(tx)]>>
                     /\ IF rsp[2] < requiredBalance(tx)
                        THEN fail("insufficient balance", cacheKeyAndValue)
                             /\ UNCHANGED <<fromId, cacheKeyAndValue>>
                        ELSE /\ cacheKeyAndValue' = aca.cacheKeyAndValue
                             /\ fromId' = aca.fromId
                             /\ toVerifyEnoughBalance(tx, aca.cacheKeyAndValue)

\* the answer to verifyEnoughBalance, the header fields, and the start of
\* isEthNativeTransfer (lines 318-355, 502)
VerifyEnoughBalance ==
    /\ pc = "verifyEnoughBalance"
    /\ UNCHANGED <<ethRawTx, rawTx, fromEthAddress, fromId, cacheKeyAndValue,
                   seen, after>>
    /\ \E rsp \in BalanceResponses :
         LET tx == rawTx[1]
         IN  /\ rpcLog' = Append(rpcLog, <<"getBalance", "from", rsp>>)
             /\ IF rsp = RpcError
                THEN fail("UpstreamError", cacheKeyAndValue)
                     /\ UNCHANGED isEthNativeTransfer_
                ELSE IF rsp[2] < requiredBalance(tx)
                THEN fail("not enough balance", cacheKeyAndValue)
                     /\ UNCHANGED isEthNativeTransfer_
                ELSE IF argsHeaderError(tx) # "none"
                THEN fail(argsHeaderError(tx), cacheKeyAndValue)
                     /\ UNCHANGED isEthNativeTransfer_
                ELSE IF needsToLookup(tx.to)
                THEN pc' = "toLookup1" /\ UNCHANGED <<ret, isEthNativeTransfer_>>
                ELSE classified(tx, FALSE)

\* isEthNativeTransfer: the answer to getAccountIdByEthAddress(to) (line 503)
ToLookup1 ==
    /\ pc = "toLookup1"
    /\ UNCHANGED <<ethRawTx, rawTx, fromEthAddress, fromId, cacheKeyAndValue,
                   seen, after>>
    /\ \E rsp \in AccountIdResponses(ToAccountIds) :
         /\ rpcLog' = Append(rpcLog, <<"getAccountId", "to", rsp>>)
         /\ IF rsp = RpcError
            THEN fail("UpstreamError", cacheKeyAndValue)
                 /\ UNCHANGED isEthNativeTransfer_
            ELSE IF nativeWithoutScriptHash(rsp[2])
            THEN classified(rawTx[1], TRUE)
            ELSE pc' = "scriptHash" /\ UNCHANGED <<ret, isEthNativeTransfer_>>

\* isEthEOA: the answer to getScriptHash (lines 517-518)
ScriptHash ==
    /\ pc = "scriptHash"
    /\ UNCHANGED <<ethRawTx, rawTx, fromEthAddress, fromId, cacheKeyAndValue,
                   seen, after>>
    /\ \E rsp \in ScriptHashResponses :
         /\ rpcLog' = Append(rpcLog, <<"getScriptHash", "to", rsp>>)
         /\ IF rsp = RpcError
            THEN fail("UpstreamError", cacheKeyAndValue) /\ UNCHANGED isEthNativeTransfer_
            ELSE classified(rawTx[1], rsp[2])

\* the answer to the second getAccountIdByEthAddress(to) (line 362); it
\* is a call of its own, which the rollup may answer otherwise than before
ToLookup2 ==
    /\ pc = "toLookup2"
    /\ UNCHANGED <<ethRawTx, rawTx, fromEthAddress, locals, after>>
    /\ \E rsp \in AccountIdResponses(ToAccountIds) :
         /\ rpcLog' = Append(rpcLog, <<"getAccountId", "to", rsp>>)
         /\ IF rsp = RpcError
            THEN fail("UpstreamError", cacheKeyAndValue)
            ELSE finish(rawTx[1], rsp[2], isEthNativeTransfer_[1])

\* polyjuiceRawTransactionToApiTransaction on the accepted transaction
polyjuiceRawTransactionToApiTransaction(raw, from) ==
    LET tx == ethRawTx2PolyTx(raw)
    IN  [hash |-> "ethTxHash",
         blockHash |-> "bumpHash(tipBlockHash)",
         blockNumber |-> "tipBlockNumber + 1",
         transactionIndex |-> "PENDING_TRANSACTION_INDEX",
         from |-> from,
         to |-> IF tx.to = <<>> THEN <<>> ELSE <<tx.to>>,
         gas |-> HexNum(tx.gasLimit),
         gasPrice |-> OrZero(tx.gasPrice),
         input |-> tx.data,
         nonce |-> OrZero(tx.nonce),
         value |-> OrZero(tx.value),
         v |-> IF NumberIsEven(tx.v) THEN <<1>> ELSE <<0>>,
         r |-> tx.r,
         s |-> tx.s]

ProjectPending ==
    /\ pc = "done" /\ ret.status = "ok" /\ apiTx = <<>>
    /\ apiTx' = <<polyjuiceRawTransactionToApiTransaction(ethRawTx, fromEthAddress[1])>>
    /\ UNCHANGED <<ethRawTx, pc, rawTx, fromEthAddress, locals, rpcLog, ret,
                   decodeIn, decoded>>

\* a reader of the emitted transaction decodes its args
DecodeEmittedArgs ==
    /\ pc = "done" /\ ret.status = "ok" /\ decoded = <<>>
    /\ decodeIn' = <<ret.tx[1].raw.args>>
    /\ decoded' = <<decodePolyjuiceArgs(ret.tx[1].raw.args)>>
    /\ UNCHANGED <<ethRawTx, pc, rawTx, fromEthAddress, locals, rpcLog, ret, apiTx>>

Init ==
    /\ ethRawTx \in RawTxs
    /\ pc = "start"
    /\ rawTx = <<>> /\ fromEthAddress = <<>> /\ fromId = <<>>
    /\ cacheKeyAndValue = <<>> /\ isEthNativeTransfer_ = <<>>
    /\ rpcLog = <<>> /\ seen = <<>>
    /\ ret = Pending
    /\ apiTx = <<>> /\ decodeIn = <<>> /\ decoded = <<>>

Next ==
    \/ PreChecks
    \/ SenderLookup
    \/ CheckBalance
    \/ VerifyEnoughBalance
    \/ ToLookup1
    \/ ScriptHash
    \/ ToLookup2
    \/ ProjectPending
    \/ DecodeEmittedArgs

Spec == Init /\ [][Next]_vars

----------------------------------------------------------------------------
(* decodePolyjuiceArgs on its own: args of every shape *)

Headers == {args_0_7,
            <<255, 255, 255, 80, 79, 76, 0>>,
            <<0, 255, 255, 80, 79, 76, 89>>,
            Rep(7, 0)}
CallKinds == {0, 3}
InputSizes == {<<0, 0, 0, 0>>, <<2, 0, 0, 0>>, <<0, 1, 0, 0>>}
Inputs == {<<>>, <<0, 1>>, <<1, 2, 3>>}
Tails == {<<>>, Addr20}
CutLengths == {0, 6, 51}

FullArgs ==
    {h \o <<k>> \o UInt64ToLeBytes(gl) \o UInt128ToLeBytes(gp)
       \o UInt128ToLeBytes(<<5>>) \o n \o d \o t :
        h \in Headers, k \in CallKinds, gl \in {<<82, 8>>, <<>>}, gp \in {<<1>>, <<>>},
        n \in InputSizes, d \in Inputs, t \in Tails}

ArgsInputs == FullArgs \cup {SubSeq(a, 1, c) : a \in FullArgs, c \in CutLengths}

InitDecode ==
    /\ ethRawTx = <<>>
    /\ pc = "decode"
    /\ rawTx = <<>> /\ fromEthAddress = <<>> /\ fromId = <<>>
    /\ cacheKeyAndValue = <<>> /\ isEthNativeTransfer_ = <<>>
    /\ rpcLog = <<>> /\ seen = <<>>
    /\ ret = Pending
    /\ apiTx = <<>> /\ decoded = <<>>
    /\ decodeIn \in {<<a>> : a \in ArgsInputs}

DecodeArgs ==
    /\ pc = "decode"
    /\ pc' = "decoded"
    /\ decoded' = <<decodePolyjuiceArgs(decodeIn[1])>>
    /\ UNCHANGED <<ethRawTx, rawTx, fromEthAddress, locals, rpcLog, ret, apiTx, decodeIn>>

NextDecode == DecodeArgs

SpecDecode == InitDecode /\ [][NextDecode]_vars

----------------------------------------------------------------------------
(* Properties *)

Count(call, about) ==
    Cardinality({j \in DOMAIN rpcLog : rpcLog[j][1] = call /\ rpcLog[j][2] = about})

Done == pc = "done"
Ok == pc = "done" /\ ret.status = "ok"
Failed == pc = "done" /\ ret.status = "error"

\* the sender lookup answered "no account" and checkBalance answered
SenderUnresolved == seen # <<>>
BalanceSufficient == seen[1].balance >= seen[1].requiredBalance

\* the position in rpcLog of the first account-id lookup of `to`
FirstToLookup ==
    CHOOSE k \in DOMAIN rpcLog :
        /\ rpcLog[k][1] = "getAccountId" /\ rpcLog[k][2] = "to"
        /\ \A j \in 1..(k - 1) : ~(rpcLog[j][1] = "getAccountId" /\ rpcLog[j][2] = "to")

\* native transfer, from what the rollup answered to isEthNativeTransfer:
\* `to` is 20 bytes and its account id is absent or the account is an EOA
NativeTransfer ==
    /\ Len(rawTx[1].to) = 20
    /\ Count("getAccountId", "to") > 0
    /\ \/ rpcLog[FirstToLookup][3] = <<"ok", <<>>>>
       \/ <<"ok", TRUE>> \in Answers("getScriptHash", "to")

\* C1: whenever the transcoder ends in an error, the caller receives no
\* transaction and no auto-create-account cache entry; an unresolved sender
\* whose balance is below value + gasLimit * gasPrice ends in the
\* insufficient-balance error, with no cache entry.
C1_NoCacheOnError ==
    /\ ret.status = "error" => ret.cache = <<>> /\ ret.tx = <<>>
    /\ SenderUnresolved /\ ~BalanceSufficient =>
          /\ Failed
          /\ ret.err = "insufficient balance"
          /\ ret.cache = <<>>
          /\ cacheKeyAndValue = <<>>

\* an error raised after the cache entry had been built locally
C1_Witness == Failed /\ cacheKeyAndValue # <<>>

\* C2 as stated: an unresolved sender with a sufficient balance always gets
\* one cache entry and a transaction with from_id = AUTO_CREATE_ACCOUNT_FROM_ID.
C2_Original ==
    Done /\ SenderUnresolved /\ BalanceSufficient =>
        /\ ret.status = "ok"
        /\ Len(ret.cache) = 1
        /\ ret.tx[1].raw.from_id = <<AUTO_CREATE_ACCOUNT_FROM_ID>>

\* C2 amended: an unresolved sender with a sufficient balance whose
\* transaction also passes every later step (so that the transcoder returns)
\* gets exactly one cache entry and from_id = AUTO_CREATE_ACCOUNT_FROM_ID;
\* and the transcoder returns for an unresolved sender only so.
C2_AutoCreate ==
    Ok /\ SenderUnresolved =>
        /\ BalanceSufficient
        /\ Len(ret.cache) = 1
        /\ ret.cache = cacheKeyAndValue
        /\ ret.tx[1].raw.from_id = <<AUTO_CREATE_ACCOUNT_FROM_ID>>

C2_Witness == Ok /\ SenderUnresolved /\ BalanceSufficient /\ Len(ret.cache) = 1

\* C3: a transaction that is oversized, or whose gas limit or gas price
\* fails validation, is rejected with that error and no rollup RPC call is
\* ever issued for it.
C3_ChecksBeforeRpc ==
    rawTx # <<>> =>
      LET tx == rawTx[1]
          oversized == RlpListLen(encodePolyjuiceTransaction(tx)) > MAX_TRANSACTION_SIZE
          badGasLimit == ~verifyGasLimit(OrZero(tx.gasLimit))
          badGasPrice == ~verifyGasPrice(OrZero(tx.gasPrice))
      IN  oversized \/ badGasLimit \/ badGasPrice =>
            /\ rpcLog = <<>>
            /\ Failed
            /\ ret.err = IF oversized THEN "oversized data"
                         ELSE IF badGasLimit THEN "gas limit" ELSE "gas price"

C3_Witness ==
    /\ Failed /\ rpcLog = <<>> /\ ret.err = "gas price"
    /\ rawTx # <<>> /\ ~verifyGasPrice(OrZero(rawTx[1].gasPrice))

\* C4 as stated: recipient classification and to_id selection issue at most
\* two RPC calls: at most one account-id lookup of `to` and at most one
\* script-hash lookup.
C4_Original ==
    /\ Count("getAccountId", "to") <= 1
    /\ Count("getScriptHash", "to") <= 1
    /\ Count("getAccountId", "to") + Count("getScriptHash", "to") <= 2

\* C4 amended: recipient classification and to_id selection issue at most
\* three RPC calls: at most two account-id lookups of `to` (the second one
\* only for a recipient that is not a native transfer) and at most one
\* script-hash lookup, the latter only when the account id is present.
C4_AtMostThreeCalls ==
    /\ Count("getAccountId", "to") <= 2
    /\ Count("getScriptHash", "to") <= 1
    /\ \A k \in DOMAIN rpcLog :
          rpcLog[k][1] = "getScriptHash" =>
             /\ k > 1
             /\ rpcLog[k - 1] \in
                   {<<"getAccountId", "to", <<"ok", <<i>>>>>> : i \in ToAccountIds}
    /\ Count("getAccountId", "to") = 2 =>
          /\ Len(rawTx[1].to) = 20
          /\ isEthNativeTransfer_ = <<FALSE>>
          /\ Count("getScriptHash", "to") = 1

\* a regular call to a 20-byte contract address: three calls
C4_Witness ==
    /\ Ok
    /\ Count("getAccountId", "to") = 2
    /\ Count("getScriptHash", "to") = 1

\* C5: the args of a returned transaction end with the 20-byte recipient
\* exactly for a native transfer: 52 + len(data) + 20 bytes with the tail
\* equal to `to`, and 52 + len(data) bytes for a creation or a regular call.
C5_ArgsTail ==
    Ok =>
      LET tx == rawTx[1]
          args == ret.tx[1].raw.args
      IN  IF NativeTransfer
          THEN /\ Len(args) = 52 + Len(tx.data) + 20
               /\ SubSeq(args, 53 + Len(tx.data), Len(args)) = tx.to
          ELSE Len(args) = 52 + Len(tx.data)

\* a native transfer to an EOA that carries call data
C5_Witness ==
    /\ Ok /\ NativeTransfer
    /\ <<"ok", TRUE>> \in Answers("getScriptHash", "to")
    /\ rawTx[1].data # <<>>
    /\ Len(ret.tx[1].raw.args) = 74

\* C6: to_id is the Polyjuice creator account for a creation and for a
\* native transfer, and else the account id the rollup resolves for `to`;
\* when the rollup resolves none, the transcoder fails with the
\* recipient-not-found error.
C6_ToId ==
    /\ Ok =>
         LET tx == rawTx[1]
             toId == ret.tx[1].raw.to_id
         IN  IF tx.to = <<>> \/ NativeTransfer
             THEN toId = <<PolyjuiceCreatorId>>
             ELSE /\ toId # <<>>
                  /\ rpcLog[Len(rpcLog)] = <<"getAccountId", "to", <<"ok", toId>>>>
    /\ /\ Done /\ rpcLog # <<>>
       /\ rpcLog[Len(rpcLog)] = <<"getAccountId", "to", <<"ok", <<>>>>>>
       /\ ~NativeTransfer
       => Failed /\ ret.err = "to id not found"

\* a regular call to a 20-byte address that resolves to a contract
C6_Witness ==
    /\ Ok
    /\ Len(rawTx[1].to) = 20
    /\ <<"ok", FALSE>> \in Answers("getScriptHash", "to")
    /\ ret.tx[1].raw.to_id \in {<<i>> : i \in ToAccountIds}

\* C7: chain_id is 0 exactly when the integer value of `v` is 27 or 28 (the
\* case in which calcMessage hashes the six-field tuple), and else the
\* configured web3 chain id.
C7_ChainId ==
    Ok => ret.tx[1].raw.chain_id = IF IsNonEip155(rawTx[1]) THEN 0 ELSE Web3ChainId

\* the parity of the integer value of a hex string
IsEven(v) == Strip(v) = <<>> \/ v[Len(v)] % 2 = 0

\* C8: the signature of a returned transaction is r || s || recovery byte,
\* 65 bytes, r and s being the decoded values left-padded to 32 bytes and
\* the recovery byte 1 for an even `v` and 0 for an odd one; the pending
\* view's v equals the recovery byte.
C8_Signature ==
    Ok =>
      LET sig == ret.tx[1].signature
          r == ethRawTx[8]
          s == ethRawTx[9]
      IN  /\ Len(sig) = 65
          /\ SubSeq(sig, 1, 32) = PadStart(r, 32) /\ Strip(SubSeq(sig, 1, 32)) = Strip(r)
          /\ SubSeq(sig, 33, 64) = PadStart(s, 32) /\ Strip(SubSeq(sig, 33, 64)) = Strip(s)
          /\ sig[65] = IF IsEven(ethRawTx[7]) THEN 1 ELSE 0
          /\ apiTx # <<>> => apiTx[1].v = <<sig[65]>>

\* C9: decodePolyjuiceArgs fails on args that do not start with the magic,
\* are shorter than 52 bytes or are not 52 + inputSize bytes long, and
\* accepts all other args.
C9_HeaderValidated ==
    decoded # <<>> /\ pc = "decoded" =>
      LET args == decodeIn[1]
          magic == Len(args) >= 7 /\ SubSeq(args, 1, 7) = args_0_7
          sized == /\ Len(args) >= 52
                   /\ Len(args) = 52 + Uint32FromLe(SubSeq(args, 49, 52))
      IN  decoded[1].ok <=> (magic /\ sized)

\* C10: decodePolyjuiceArgs accepts the args of every returned transaction
\* and gives back the isCreate, gasLimit, gasPrice, value and input that
\* were encoded.
C10_RoundTrip ==
    Ok /\ decoded # <<>> =>
      LET tx == rawTx[1]
          d == decoded[1]
      IN  /\ d.ok
          /\ d.isCreate = (tx.to = <<>>)
          /\ d.gasLimit = HexNum(tx.gasLimit)
          /\ d.gasPrice = HexNum(tx.gasPrice)
          /\ d.value = HexNum(tx.value)
          /\ d.input = tx.data

\* what the rollup answered to the sender's account-id lookup
SenderAnswer == rpcLog[1]

\* C11: on a successful return a cache entry is returned exactly when the
\* sender's account-id lookup answered "absent".  With an id, from_id is
\* that id, there is no cache entry and checkBalance was not called; with
\* none, from_id is the sentinel, the cache key is "auto_create_account:"
\* and the hash of the re-encoded transaction, and the cache value holds
\* the raw transaction as received and the recovered sender address.
C11_CacheIffSenderAbsent ==
    Ok =>
      /\ rpcLog # <<>>
      /\ SenderAnswer[1] = "getAccountId" /\ SenderAnswer[2] = "from"
      /\ SenderAnswer[3] # RpcError
      /\ (ret.cache # <<>>) <=> (SenderAnswer[3] = <<"ok", <<>>>>)
      /\ IF SenderAnswer[3] # <<"ok", <<>>>>
         THEN /\ <<"ok", ret.tx[1].raw.from_id>> = SenderAnswer[3]
              /\ ret.cache = <<>>
              /\ seen = <<>>
              /\ Count("getBalance", "from") = 1
         ELSE /\ ret.tx[1].raw.from_id = <<AUTO_CREATE_ACCOUNT_FROM_ID>>
              /\ Len(ret.cache) = 1
              /\ ret.cache[1][1] =
                    <<"auto_create_account",
                      <<"keccak256",
                        <<Strip(ethRawTx[1]), Strip(ethRawTx[2]), Strip(ethRawTx[3]),
                          ethRawTx[4], Strip(ethRawTx[5]), ethRawTx[6],
                          Strip(ethRawTx[7]), Strip(ethRawTx[8]), Strip(ethRawTx[9])>>>>>>
              /\ ret.cache[1][2] = [tx |-> ethRawTx, fromAddress |-> fromEthAddress[1]]
              /\ fromEthAddress # <<>>
              /\ fromEthAddress \in recoverPublicKey(getSignature(rawTx[1]),
                                                     calcMessage(rawTx[1]))
              /\ seen # <<>>
              /\ Count("getBalance", "from") = 2

\* an auto-created sender whose raw transaction differs from its re-encoding
C11_Witness ==
    /\ Ok /\ ret.cache # <<>>
    /\ SenderAnswer[3] = <<"ok", <<>>>>
    /\ ethRawTx[7] = <<0, 27>>
    /\ ret.cache[1][2].tx # encodePolyjuiceTransaction(rawTx[1])

\* a resolved sender: no cache entry
C11_ResolvedReached == Ok /\ ret.cache = <<>> /\ SenderAnswer[3] \in {<<"ok", <<i>>>> : i \in SenderAccountIds}

====
